---- MODULE Spec2Model ----
(***************************************************************************)
(* A model of pyphishtank (src/__init__.py): the Result object built from  *)
(* the service's JSON "results" payload, and the PhishTank client whose    *)
(* check(url) posts to the service, copies the rate headers of the reply   *)
(* into the client and turns the reply into a Result or an exception.      *)
(*                                                                         *)
(* Python values are records with the same four fields whatever their      *)
(* type: t the type name, n the number of an int or bool, s the characters *)
(* of a str (one-character strings, so that parsing is computed character  *)
(* by character), d the six components of a datetime.                      *)
(***************************************************************************)
EXTENDS Integers, Sequences, FiniteSets

\* ------------------------------------------------------------ bounds

\* Number of threads that share one PhishTank instance.
NumCallers == 2

\* Cap on the requests posted since the last reply was processed (a post
\* that fails in the transport may be repeated without end).
MaxPosts == 3

\* ------------------------------------------------- program constants

DEFAULT_REQUESTS_AVAILABLE == 50
DEFAULT_REQUESTS_MADE == 0
LIMIT_EXCEEDED_STATUS == 509
DEFAULT_LIMIT_INTERVAL == 300

\* ------------------------------------------------------ python values

PyNone == [t |-> "NoneType", n |-> 0, s |-> <<>>, d |-> <<>>]
PyBool(b) == [t |-> "bool", n |-> IF b THEN 1 ELSE 0, s |-> <<>>, d |-> <<>>]
PyInt(i) == [t |-> "int", n |-> i, s |-> <<>>, d |-> <<>>]
PyStr(chars) == [t |-> "str", n |-> 0, s |-> chars, d |-> <<>>]
PyDatetime(parts) == [t |-> "datetime", n |-> 0, s |-> <<>>, d |-> parts]

\* The mark of a key a dict does not hold (not a Python value).
Absent == [t |-> "absent", n |-> 0, s |-> <<>>, d |-> <<>>]

\* dict.get(key, default)
Get(dict, key, default) == IF dict[key] = Absent THEN default ELSE dict[key]

\* Python's truth value of an object, as `if x:` takes it.
Truthy(v) ==
    CASE v.t = "NoneType" -> FALSE
      [] v.t = "bool" -> v.n = 1
      [] v.t = "int" -> v.n # 0
      [] v.t = "str" -> v.s # <<>>
      [] OTHER -> TRUE

\* ------------------------------------------------ datetime.strptime

Digits == {"0", "1", "2", "3", "4", "5", "6", "7", "8", "9"}

DigitVal(c) ==
    CASE c = "0" -> 0 [] c = "1" -> 1 [] c = "2" -> 2 [] c = "3" -> 3
      [] c = "4" -> 4 [] c = "5" -> 5 [] c = "6" -> 6 [] c = "7" -> 7
      [] c = "8" -> 8 [] c = "9" -> 9

RECURSIVE NumVal(_)
NumVal(chars) ==
    IF chars = <<>> THEN 0
    ELSE 10 * NumVal(SubSeq(chars, 1, Len(chars) - 1)) + DigitVal(chars[Len(chars)])

AllDigits(chars) == \A i \in 1..Len(chars) : chars[i] \in Digits

\* The character at position i, "" past the end.
At(chars, i) == IF i >= 1 /\ i <= Len(chars) THEN chars[i] ELSE ""

\* The end (exclusive) of the longest run of digits and blanks from i: the
\* only characters a directive's pattern takes. Every directive of the
\* format is followed by a literal that is neither, so a directive that
\* matches, matches this whole run.
RECURSIVE RunEnd(_, _)
RunEnd(chars, i) ==
    IF At(chars, i) \in Digits \cup {" "} THEN RunEnd(chars, i + 1) ELSE i

\* The patterns of the directives: %Y \d\d\d\d, %m 1[0-2]|0[1-9]|[1-9],
\* %d 3[0-1]|[1-2]\d|0[1-9]|[1-9]| [1-9], %H 2[0-3]|[0-1]\d|\d,
\* %M [0-5]\d|\d, %S 6[0-1]|[0-5]\d|\d.
MatchesY(f) == Len(f) = 4 /\ AllDigits(f)
MatchesM(f) == /\ AllDigits(f)
               /\ Len(f) \in {1, 2}
               /\ NumVal(f) \in 1..12
MatchesD(f) == IF Len(f) = 2 /\ f[1] = " "
               THEN f[2] \in Digits \ {"0"}
               ELSE AllDigits(f) /\ Len(f) \in {1, 2} /\ NumVal(f) \in 1..31
MatchesUpTo(f, max) == /\ AllDigits(f)
                       /\ Len(f) \in {1, 2}
                       /\ NumVal(f) <= max

FieldVal(f) == IF At(f, 1) = " " THEN NumVal(Tail(f)) ELSE NumVal(f)

IsLeap(y) == (y % 4 = 0 /\ y % 100 # 0) \/ y % 400 = 0

DaysInMonth(y, m) ==
    CASE m \in {4, 6, 9, 11} -> 30
      [] m = 2 -> IF IsLeap(y) THEN 29 ELSE 28
      [] OTHER -> 31

\* What the datetime constructor accepts.
ValidDatetime(p) ==
    /\ p[1] \in 1..9999
    /\ p[2] \in 1..12
    /\ p[3] \in 1..DaysInMonth(p[1], p[2])
    /\ p[4] \in 0..23
    /\ p[5] \in 0..59
    /\ p[6] \in 0..59

UtcSuffix == <<"+", "0", "0", ":", "0", "0">>

\* datetime.datetime.strptime(chars, '%Y-%m-%dT%H:%M:%S+00:00'): the format
\* is compiled to a regular expression matched ignoring case against the
\* whole string, and the numbers found are given to datetime's constructor.
\* [ok, parts]: ok is FALSE where strptime raises ValueError.
Strptime(chars) ==
    LET e1 == RunEnd(chars, 1)
        e2 == RunEnd(chars, e1 + 1)
        e3 == RunEnd(chars, e2 + 1)
        e4 == RunEnd(chars, e3 + 1)
        e5 == RunEnd(chars, e4 + 1)
        e6 == RunEnd(chars, e5 + 1)
        fY == SubSeq(chars, 1, e1 - 1)
        fm == SubSeq(chars, e1 + 1, e2 - 1)
        fd == SubSeq(chars, e2 + 1, e3 - 1)
        fH == SubSeq(chars, e3 + 1, e4 - 1)
        fM == SubSeq(chars, e4 + 1, e5 - 1)
        fS == SubSeq(chars, e5 + 1, e6 - 1)
        matched ==
            /\ MatchesY(fY) /\ At(chars, e1) = "-"
            /\ MatchesM(fm) /\ At(chars, e2) = "-"
            /\ MatchesD(fd) /\ At(chars, e3) \in {"T", "t"}
            /\ MatchesUpTo(fH, 23) /\ At(chars, e4) = ":"
            /\ MatchesUpTo(fM, 59) /\ At(chars, e5) = ":"
            /\ MatchesUpTo(fS, 61)
            /\ SubSeq(chars, e6, Len(chars)) = UtcSuffix
        parts == <<FieldVal(fY), FieldVal(fm), FieldVal(fd),
                   FieldVal(fH), FieldVal(fM), FieldVal(fS)>>
    IN  IF matched /\ ValidDatetime(parts)
        THEN [ok |-> TRUE, parts |-> parts]
        ELSE [ok |-> FALSE, parts |-> <<>>]

\* ------------------------------------------------------ class Result

Fields == {"url", "in_database", "phish_id", "phish_detail_page",
           "verified", "verified_at", "valid", "submitted_at"}

DateFields == {"verified_at", "submitted_at"}

\* What a call returns or raises: kind is "Result" or the exception's class,
\* arg the exception's argument, result the Result returned (<<>> if none).
Raise(kind, arg) == [kind |-> kind, arg |-> arg, result |-> <<>>]
Return(fields) == [kind |-> "Result", arg |-> PyNone, result |-> <<fields>>]

\* A __force_date that keeps the string it is given.
Mut_force_date(date_str) == [exc |-> "", value |-> date_str]

\* Result.__force_date: strptime raises TypeError for an argument that is
\* not a string, ValueError for a string it does not accept.
force_date(date_str) ==
    IF date_str.t # "str" THEN [exc |-> "TypeError", value |-> PyNone]
    ELSE LET parsed == Strptime(date_str.s)
         IN  IF parsed.ok
             THEN [exc |-> "", value |-> PyDatetime(parsed.parts)]
             ELSE [exc |-> "ValueError", value |-> PyNone]

\* A date attribute after `if self.x: self.x = self.__force_date(self.x)`.
DateAttribute(value) ==
    IF Truthy(value) THEN force_date(value) ELSE [exc |-> "", value |-> value]

\* The attributes with False for a missing key.
Mut_Attributes(response) ==
    [f \in Fields |-> Get(response, f, PyBool(FALSE))]

\* The eight response.get(name, None) of Result.__init__.
Attributes(response) == [f \in Fields |-> Get(response, f, PyNone)]

\* Result.__init__(response): the attributes in the order the code sets
\* them; the first date that does not parse ends the construction.
ResultInit(response) ==
    LET raw == Attributes(response)
        va == DateAttribute(raw["verified_at"])
        sa == DateAttribute(raw["submitted_at"])
    IN  IF va.exc # "" THEN Raise(va.exc, PyNone)
        ELSE IF sa.exc # "" THEN Raise(sa.exc, PyNone)
        ELSE Return([raw EXCEPT !["verified_at"] = va.value,
                                !["submitted_at"] = sa.value])

\* An __unsafe that tests self.valid == True.
Mut_Unsafe(self) == self["valid"] \in {PyBool(TRUE), PyInt(1)}

\* Result.__unsafe, read through the property `unsafe`.
Unsafe(self) == IF Truthy(self["valid"]) THEN TRUE ELSE FALSE

\* ------------------------------------------------------------ inputs

Chars_u == <<"h", "t", "t", "p", ":", "/", "/", "a", ".", "b">>
Chars_page == <<"h", "t", "t", "p", ":", "/", "/", "p", "/", "7">>
Chars_7 == <<"7">>
Chars_y == <<"y">>
Chars_n == <<"n">>
Chars_49 == <<"4", "9">>
Chars_50 == <<"5", "0">>
Chars_x == <<"x">>
Chars_300 == <<"3", "0", "0">>
Chars_5m == <<"5", "m">>
Chars_InvalidKey == <<"I", "n", "v", "a", "l", "i", "d", " ",
                      "A", "P", "I", " ", "K", "e", "y">>

Y2015 == <<"2", "0", "1", "5">>
Y2016 == <<"2", "0", "1", "6">>
May01 == <<"-", "0", "5", "-", "0", "1">>
Feb29 == <<"-", "0", "2", "-", "2", "9">>
Noon == <<"1", "2", ":", "0", "0", ":", "0", "0">>

\* "2015-05-01T12:00:00+00:00", the format's own example.
D_Exact == Y2015 \o May01 \o <<"T">> \o Noon \o UtcSuffix
\* "2016-02-29T12:00:00+00:00", a leap day.
D_Leap == Y2016 \o Feb29 \o <<"T">> \o Noon \o UtcSuffix
\* "2015-5-1T12:00:00+00:00", month and day not padded.
D_Unpadded == Y2015 \o <<"-", "5", "-", "1", "T">> \o Noon \o UtcSuffix
\* "2015-05-01t12:00:00+00:00", a lower-case separator.
D_LowerT == Y2015 \o May01 \o <<"t">> \o Noon \o UtcSuffix
\* "2015-02-29T12:00:00+00:00", no such day.
D_Feb29 == Y2015 \o Feb29 \o <<"T">> \o Noon \o UtcSuffix
\* "2015-05-01T12:00:00+01:00", another offset.
D_Offset == Y2015 \o May01 \o <<"T">> \o Noon \o <<"+", "0", "1", ":", "0", "0">>
\* "2015-05-01 12:00:00", blank separator and no offset.
D_Plain == Y2015 \o May01 \o <<" ">> \o Noon

DateVals == {Absent, PyStr(<<>>), PyInt(5),
             PyStr(D_Exact), PyStr(D_Leap), PyStr(D_Unpadded), PyStr(D_LowerT),
             PyStr(D_Feb29), PyStr(D_Offset), PyStr(D_Plain)}

ValidVals == {Absent, PyBool(TRUE), PyBool(FALSE), PyStr(Chars_y), PyStr(Chars_n),
              PyStr(<<>>), PyInt(0), PyInt(1)}

\* The "results" objects the service may send: each key absent or present
\* with one of the values JSON can carry for it.
Payloads ==
    { [url |-> u, in_database |-> i, phish_id |-> p, phish_detail_page |-> g,
       verified |-> v, verified_at |-> va, valid |-> vd, submitted_at |-> sa] :
        u \in {Absent, PyStr(Chars_u)},
        i \in {Absent, PyBool(FALSE)},
        p \in {Absent, PyStr(Chars_7)},
        g \in {Absent, PyStr(Chars_page)},
        v \in {Absent, PyBool(TRUE)},
        va \in DateVals,
        vd \in ValidVals,
        sa \in DateVals }

EmptyPayload == [f \in Fields |-> Absent]

PhishPayload ==
    [url |-> PyStr(Chars_u), in_database |-> PyBool(TRUE),
     phish_id |-> PyStr(Chars_7), phish_detail_page |-> PyStr(Chars_page),
     verified |-> PyBool(TRUE), verified_at |-> PyStr(D_Exact),
     valid |-> PyBool(TRUE), submitted_at |-> PyStr(D_Leap)]

\* The payloads the replies of the client's specification carry.
ReplyPayloads ==
    {EmptyPayload, PhishPayload,
     [PhishPayload EXCEPT !["verified_at"] = PyStr(D_Plain)],
     [PhishPayload EXCEPT !["submitted_at"] = PyStr(<<>>), !["valid"] = PyStr(Chars_y)],
     [EmptyPayload EXCEPT !["url"] = PyStr(Chars_u), !["in_database"] = PyBool(FALSE)]}

Headers(count, limit, interval) ==
    [X_Request_Count |-> count, X_Request_Limit |-> limit,
     X_Request_Limit_Interval |-> interval]

CountVals == {Absent, PyStr(Chars_49), PyStr(Chars_50), PyStr(Chars_x)}
LimitVals == {Absent, PyStr(Chars_50), PyStr(Chars_x)}
IntervalVals == {Absent, PyStr(Chars_300), PyStr(Chars_5m)}

\* A reply's body: text that is not JSON, a JSON array, or a JSON object
\* with or without the keys errortext and results.
NotJsonBody == [json |-> "invalid", errortext |-> Absent, results |-> <<>>]
ArrayBody == [json |-> "array", errortext |-> Absent, results |-> <<>>]
ObjectBody(errortext, results) ==
    [json |-> "object", errortext |-> errortext, results |-> results]

ObjectBodies ==
    { ObjectBody(e, r) :
        e \in {Absent, PyStr(Chars_InvalidKey)},
        r \in {<<>>} \cup { <<p>> : p \in ReplyPayloads } }

\* The replies requests.post may return.
Replies ==
    { [status |-> 200, headers |-> Headers(c, l, Absent), body |-> b] :
        c \in CountVals, l \in LimitVals,
        b \in {NotJsonBody, ArrayBody} \cup ObjectBodies }
    \cup
    { [status |-> LIMIT_EXCEEDED_STATUS, headers |-> Headers(c, l, i), body |-> b] :
        c \in CountVals, l \in LimitVals, i \in IntervalVals,
        b \in {NotJsonBody, ObjectBody(Absent, <<PhishPayload>>)} }

\* ------------------------------------------------------------- state

Callers == 1..NumCallers

VARIABLES
    requests_made,       \* PhishTank._requests_made
    requests_available,  \* PhishTank._requests_available
    pc,                  \* each caller: "idle", or "sending" inside requests.post
    posts,               \* requests posted since a reply was last processed
    last,                \* the call that ended last: its reply and what it gave
    payload,             \* the response Result is constructed from
    res,                 \* what Result(payload) gave
    unsafe               \* what reading Result.unsafe gave

vars == <<requests_made, requests_available, pc, posts, last, payload, res, unsafe>>

client_vars == <<requests_made, requests_available, pc, posts, last>>
result_vars == <<payload, res, unsafe>>

NoCall == [op |-> "none", response |-> <<>>, outcome |-> Raise("none", PyNone)]
NotConstructed == Raise("none", PyNone)

\* ----------------------------------------------------- class PhishTank

\* Lines 191, 192 and 196: the three headers.get with their defaults.
RequestsMadeAfter(headers) ==
    Get(headers, "X_Request_Count", PyInt(DEFAULT_REQUESTS_MADE))

\* A limit that keeps the value held when the header is missing.
Mut_RequestsAvailableAfter(headers) ==
    IF headers["X_Request_Limit"] = Absent THEN requests_available
    ELSE headers["X_Request_Limit"]

RequestsAvailableAfter(headers) ==
    Get(headers, "X_Request_Limit", PyInt(DEFAULT_REQUESTS_AVAILABLE))

\* An interval that falls back to the default for text that is no number.
Mut_RequestInterval(headers) ==
    IF headers["X_Request_Limit_Interval"] # Absent
       /\ AllDigits(headers["X_Request_Limit_Interval"].s)
    THEN headers["X_Request_Limit_Interval"]
    ELSE PyInt(DEFAULT_LIMIT_INTERVAL)

RequestInterval(headers) ==
    Get(headers, "X_Request_Limit_Interval", PyInt(DEFAULT_LIMIT_INTERVAL))

\* An errortext that counts only when the object holds no results.
Mut_HasErrorText(data) == data.errortext # Absent /\ data.results = <<>>

\* 'errortext' in data.keys()
HasErrorText(data) == data.errortext # Absent

\* Lines 195-203 of check: what the reply gives, after the rate headers were
\* copied. response.json() raises ValueError for a body that is not JSON; a
\* JSON array has no keys(); data['results'] raises KeyError without the key.
Normalize(response) ==
    IF response.status = LIMIT_EXCEEDED_STATUS
    THEN Raise("PhishTankAPILimitExceeded", RequestInterval(response.headers))
    ELSE IF response.body.json = "invalid" THEN Raise("ValueError", PyNone)
    ELSE IF response.body.json = "array" THEN Raise("AttributeError", PyNone)
    ELSE IF HasErrorText(response.body)
    THEN Raise("PhishTankError", response.body.errortext)
    ELSE IF response.body.results = <<>> THEN Raise("KeyError", PyNone)
    ELSE ResultInit(response.body.results[1])

\* requests_left reads self._requests, an attribute that neither the class
\* nor any method sets: the read raises AttributeError before the comparison.
requests_left == Raise("AttributeError", PyNone)

Init ==
    /\ requests_made = PyInt(DEFAULT_REQUESTS_MADE)
    /\ requests_available = PyInt(DEFAULT_REQUESTS_AVAILABLE)
    /\ pc = [c \in Callers |-> "idle"]
    /\ posts = 0
    /\ last = NoCall
    /\ payload = EmptyPayload
    /\ res = NotConstructed
    /\ unsafe = "unread"

\* check, lines 184-190: the form is built and posted, whatever the counters
\* hold; the caller waits in requests.post.
CheckPost(c) ==
    /\ pc[c] = "idle"
    /\ posts < MaxPosts
    /\ pc' = [pc EXCEPT ![c] = "sending"]
    /\ posts' = posts + 1
    /\ UNCHANGED <<requests_made, requests_available, last, result_vars>>

\* The same with the copy of the headers placed after the 509 test.
Mut_CheckReply(c, response) ==
    /\ pc[c] = "sending"
    /\ requests_made' = IF response.status = LIMIT_EXCEEDED_STATUS
                        THEN requests_made
                        ELSE RequestsMadeAfter(response.headers)
    /\ requests_available' = IF response.status = LIMIT_EXCEEDED_STATUS
                             THEN requests_available
                             ELSE RequestsAvailableAfter(response.headers)
    /\ last' = [op |-> "check", response |-> <<response>>,
                outcome |-> Normalize(response)]
    /\ pc' = [pc EXCEPT ![c] = "idle"]
    /\ posts' = 0
    /\ UNCHANGED result_vars

\* check, lines 190-203: requests.post returns a reply; its rate headers
\* are copied into the client, then the reply is returned or raised.
CheckReply(c, response) ==
    /\ pc[c] = "sending"
    /\ requests_made' = RequestsMadeAfter(response.headers)
    /\ requests_available' = RequestsAvailableAfter(response.headers)
    /\ last' = [op |-> "check", response |-> <<response>>,
                outcome |-> Normalize(response)]
    /\ pc' = [pc EXCEPT ![c] = "idle"]
    /\ posts' = 0
    /\ UNCHANGED result_vars

\* check, line 190: requests.post raises (no connection, a timeout); the
\* exception leaves check before any attribute is written.
CheckPostFails(c) ==
    /\ pc[c] = "sending"
    /\ last' = [op |-> "check", response |-> <<>>,
                outcome |-> Raise("ConnectionError", PyNone)]
    /\ pc' = [pc EXCEPT ![c] = "idle"]
    /\ UNCHANGED <<requests_made, requests_available, posts, result_vars>>

\* requests_left(), lines 170-175.
RequestsLeft ==
    /\ last' = [op |-> "requests_left", response |-> <<>>,
                outcome |-> requests_left]
    /\ UNCHANGED <<requests_made, requests_available, pc, posts, result_vars>>

Next ==
    \/ \E c \in Callers : CheckPost(c)
    \/ \E c \in Callers : \E response \in Replies : CheckReply(c, response)
    \/ \E c \in Callers : CheckPostFails(c)
    \/ RequestsLeft

Spec == Init /\ [][Next]_vars

\* ------------------------------------- Result alone, over all payloads

InitResult ==
    /\ requests_made = PyInt(DEFAULT_REQUESTS_MADE)
    /\ requests_available = PyInt(DEFAULT_REQUESTS_AVAILABLE)
    /\ pc = [c \in Callers |-> "idle"]
    /\ posts = 0
    /\ last = NoCall
    /\ payload \in Payloads
    /\ res = NotConstructed
    /\ unsafe = "unread"

\* Result(payload)
Construct ==
    /\ res = NotConstructed
    /\ res' = ResultInit(payload)
    /\ UNCHANGED <<client_vars, payload, unsafe>>

\* result.unsafe
ReadUnsafe ==
    /\ res.kind = "Result"
    /\ unsafe = "unread"
    /\ unsafe' = IF Unsafe(res.result[1]) THEN "True" ELSE "False"
    /\ UNCHANGED <<client_vars, payload, res>>

NextResult == Construct \/ ReadUnsafe

SpecResult == InitResult /\ [][NextResult]_vars

\* ------------------------------------------------ the rate budget

\* A counter read as a number: an int, or a header's decimal text.
IsNumber(v) == v.t = "int" \/ (v.t = "str" /\ v.s # <<>> /\ AllDigits(v.s))
Number(v) == IF v.t = "int" THEN v.n ELSE NumVal(v.s)

BudgetKnown == IsNumber(requests_made) /\ IsNumber(requests_available)
RequestsRemaining == Number(requests_available) - Number(requests_made)

ReturnValue(v) == [kind |-> "return", arg |-> v, result |-> <<>>]

\* The reply the last call received, when it received one.
GotReply == last.op = "check" /\ last.response # <<>>
LastReply == last.response[1]

\* C1: whenever the tracked budget is exhausted (requests_available -
\* requests_made <= 0), the gate query returns false and no check posts a
\* request: no request has been posted since the reply that exhausted it.
C1_ExhaustedBudgetBlocks ==
    (BudgetKnown /\ RequestsRemaining <= 0) =>
        /\ posts = 0
        /\ last.op = "requests_left" => last.outcome = ReturnValue(PyBool(FALSE))

C3_ErrorTextRaised ==
    (/\ GotReply
     /\ LastReply.status # LIMIT_EXCEEDED_STATUS
     /\ LastReply.body.json = "object"
     /\ LastReply.body.errortext # Absent) =>
        /\ last.outcome.kind = "PhishTankError"
        /\ last.outcome.arg = LastReply.body.errortext
        /\ last.outcome.result = <<>>

C3_Witness ==
    /\ GotReply
    /\ LastReply.status = 200
    /\ LastReply.body.errortext = PyStr(Chars_InvalidKey)
    /\ LastReply.body.results = <<PhishPayload>>
    /\ last.outcome = Raise("PhishTankError", PyStr(Chars_InvalidKey))

\* A step in which caller c's check ends.
CheckEnds(c) == pc[c] = "sending" /\ pc'[c] = "idle"

HeaderOr(headers, name, default) ==
    IF headers[name] = Absent THEN default ELSE headers[name]

\* C7: in every check that receives a reply, both counters are written from
\* that reply's headers in the step in which check returns or raises,
\* whatever it returns or raises; a check that receives no reply leaves them
\* as they were.
C7_BudgetUpdatedOnEveryReply ==
    [][\A c \in Callers :
         CheckEnds(c) =>
            IF last'.response = <<>>
            THEN UNCHANGED <<requests_made, requests_available>>
            ELSE LET h == last'.response[1].headers
                 IN  /\ last'.outcome.kind \in
                            {"Result", "PhishTankError", "PhishTankAPILimitExceeded",
                             "ValueError", "TypeError", "KeyError", "AttributeError"}
                     /\ requests_made' = HeaderOr(h, "X_Request_Count", PyInt(0))
                     /\ requests_available' = HeaderOr(h, "X_Request_Limit", PyInt(50))
      ]_vars

C7_Witness ==
    /\ GotReply
    /\ last.outcome.kind = "PhishTankAPILimitExceeded"
    /\ LastReply.headers["X_Request_Count"] = PyStr(Chars_49)
    /\ requests_made = PyStr(Chars_49)
    /\ requests_available = PyStr(Chars_50)

\* C8: after a check that ended in LimitExceeded(interval), no check posts a
\* request before the interval has passed (the model has no clock: every
\* step is taken at the instant of the exception, before any interval ends).
C8_CooldownBlocks ==
    (GotReply /\ last.outcome.kind = "PhishTankAPILimitExceeded") => posts = 0

\* C9 as stated: a reply that lacks X-Request-Count or X-Request-Limit, or
\* carries a value that is no number, leaves the counter as it was, and the
\* counters are always numbers with requests_available >= 0.
C9_BadHeaderKeepsCounter ==
    [][\A c \in Callers :
         (CheckEnds(c) /\ last'.response # <<>>) =>
            LET h == last'.response[1].headers
                bad(v) == v = Absent \/ ~IsNumber(v)
            IN  /\ bad(h["X_Request_Count"]) => requests_made' = requests_made
                /\ bad(h["X_Request_Limit"]) =>
                       requests_available' = requests_available
                /\ requests_made'.t = "int"
                /\ requests_available'.t = "int" /\ requests_available'.n >= 0
      ]_vars

\* C9 amended: a reply that lacks X-Request-Count resets requests_made to 0
\* and one that lacks X-Request-Limit resets requests_available to 50; a
\* header that is present is stored as the text received, a number or not;
\* the headers never make check fail.
C9_AbsentHeaderResetsCounter ==
    GotReply =>
        LET h == LastReply.headers
        IN  /\ requests_made = (IF h["X_Request_Count"] = Absent THEN PyInt(0)
                                ELSE h["X_Request_Count"])
            /\ requests_available = (IF h["X_Request_Limit"] = Absent THEN PyInt(50)
                                     ELSE h["X_Request_Limit"])
            /\ (/\ LastReply.status = 200
                /\ LastReply.body = ObjectBody(Absent, <<EmptyPayload>>))
               => last.outcome.kind = "Result"

C9_Witness ==
    /\ GotReply
    /\ LastReply.headers["X_Request_Count"] = PyStr(Chars_x)
    /\ LastReply.headers["X_Request_Limit"] = Absent
    /\ requests_made = PyStr(Chars_x)
    /\ requests_available = PyInt(50)
    /\ last.outcome.kind = "Result"

\* C10: when the budget accommodates exactly one request, callers that call
\* check concurrently do not post two requests: at most one request has been
\* posted since the reply that left one.
C10_OnePostForBudgetOfOne ==
    (BudgetKnown /\ RequestsRemaining = 1) => posts <= 1

\* ------------------------------------------------------------ Result

Constructed == res.kind = "Result"
Failed == res.kind \in {"ValueError", "TypeError"}
ResultOf == res.result[1]

\* C4: for every results payload and each of the eight fields, an omitted
\* field is None (unknown, which is not False) in the Result and no omission
\* makes the construction fail; a field that is present and is no date
\* equals the payload's value.
C4_FieldsDefaultOrExact ==
    /\ Constructed =>
        \A f \in Fields :
            /\ payload[f] = Absent => ResultOf[f] = PyNone /\ ResultOf[f] # PyBool(FALSE)
            /\ (payload[f] # Absent /\ f \notin DateFields) => ResultOf[f] = payload[f]
    /\ Failed => \E f \in DateFields : payload[f] # Absent
    /\ res # NotConstructed => Constructed \/ Failed

C4_Witness ==
    /\ Constructed
    /\ payload["in_database"] = Absent
    /\ payload["verified_at"] = Absent
    /\ payload["valid"] = PyBool(FALSE)
    /\ payload["url"] = PyStr(Chars_u)
    /\ ResultOf["in_database"] = PyNone
    /\ ResultOf["valid"] = PyBool(FALSE)

\* C5 as stated: unsafe is true exactly when valid equals true (Python's ==,
\* which the number 1 satisfies too), and false for every other value.
C5_UnsafeIffValidIsTrue ==
    unsafe # "unread" =>
        (unsafe = "True" <=> ResultOf["valid"] \in {PyBool(TRUE), PyInt(1)})

\* C5 amended: unsafe is true exactly when valid is true in Python's truth
\* test: false for unknown (None), False, 0 and the empty string, true for
\* True, any other number and any non-empty string; for a boolean or unknown
\* valid that is valid == true.
C5_UnsafeIffValidTruthy ==
    unsafe # "unread" =>
        /\ unsafe = "True" <=>
              ResultOf["valid"] \notin {PyNone, PyBool(FALSE), PyInt(0), PyStr(<<>>)}
        /\ ResultOf["valid"].t \in {"bool", "NoneType"} =>
              (unsafe = "True" <=> ResultOf["valid"] = PyBool(TRUE))

C5_Witness ==
    /\ unsafe = "True"
    /\ payload["valid"] = PyStr(Chars_y)
    /\ ResultOf["valid"] = PyStr(Chars_y)

\* The format read to the letter: YYYY-MM-DDTHH:MM:SS+00:00.
ExactFormat(chars) ==
    /\ Len(chars) = 25
    /\ \A i \in {1, 2, 3, 4, 6, 7, 9, 10, 12, 13, 15, 16, 18, 19} : chars[i] \in Digits
    /\ chars[5] = "-" /\ chars[8] = "-" /\ chars[11] = "T"
    /\ chars[14] = ":" /\ chars[17] = ":"
    /\ SubSeq(chars, 20, 25) = <<"+", "0", "0", ":", "0", "0">>

ExactParts(chars) ==
    <<NumVal(SubSeq(chars, 1, 4)), NumVal(SubSeq(chars, 6, 7)),
      NumVal(SubSeq(chars, 9, 10)), NumVal(SubSeq(chars, 12, 13)),
      NumVal(SubSeq(chars, 15, 16)), NumVal(SubSeq(chars, 18, 19))>>

\* A value in the exact format that names an instant of the calendar.
ExactDate(v) ==
    v.t = "str" /\ ExactFormat(v.s) /\ ValidDatetime(ExactParts(v.s))

\* The empty values a payload may carry for a date.
EmptyValue(v) == v \in {PyStr(<<>>), PyInt(0), PyBool(FALSE), PyNone}

\* A value no reading of the format accepts: not a string, or a string
\* without the +00:00 ending, without a T, or in the format but naming no
\* instant of the calendar.
Unparsable(v) ==
    \/ v.t # "str"
    \/ Len(v.s) < 6
    \/ SubSeq(v.s, Len(v.s) - 5, Len(v.s)) # <<"+", "0", "0", ":", "0", "0">>
    \/ \A i \in 1..Len(v.s) : v.s[i] \notin {"T", "t"}
    \/ ExactFormat(v.s) /\ ~ValidDatetime(ExactParts(v.s))

====
